---- MODULE Spec2Model ----
(***************************************************************************)
(* A model of scripts/jp_screen.py: the per-ticker indicator computation   *)
(* (compute_metrics_for_ticker, _safe_pct), the three horizon screens      *)
(* (screen_short, screen_mid, screen_long), the explanation builder        *)
(* (explain) and the run of main (download, metrics loop, top-N lists).    *)
(*                                                                         *)
(* Numbers.  Prices and volumes are integers (prices in thousandths of a   *)
(* currency unit).  A Python/numpy float is modelled as an exact rational  *)
(* or one of the three IEEE specials: a value is a record                  *)
(*   [k |-> "fin", n |-> numerator, d |-> denominator > 0]                 *)
(*   [k |-> "nan"], [k |-> "pinf"], [k |-> "ninf"]   (n, d filled with 0,1)*)
(* Scores add four such ratios, so their numerators and denominators are   *)
(* kept as arbitrary-precision integers (little-endian limbs, base 10^4).  *)
(***************************************************************************)
EXTENDS Integers, Sequences, FiniteSets, TLC

(***************************************************************************)
(* Bounds of the model.                                                    *)
(***************************************************************************)
\* price levels of the step-shaped series are 0..MaxPx (times PxUnit)
MaxPx == 2
\* a bar table has MinBars .. MinBars + ExtraBars rows
ExtraBars == 1
\* a ticker's columns start with 0..MaxNulls null rows (no bars yet)
MaxNulls == 1
\* --top ranges over -1..MaxTop
MaxTop == 2
\* --chunk-size ranges over 0..MaxChunk
MaxChunk == 2

(***************************************************************************)
(* Program constants.                                                      *)
(***************************************************************************)
\* if len(close) < 250: return None
MinBars == 250
\* window_252 = min(252, len(high))
Win52w == 252
\* ma200.iloc[-21], len(ma200.dropna()) >= 21
SlopeLag == 21

(***************************************************************************)
(* Floats as exact rationals with the IEEE specials.                       *)
(***************************************************************************)
NaN == [k |-> "nan", n |-> 0, d |-> 1]

PosInf == [k |-> "pinf", n |-> 0, d |-> 1]

NegInf == [k |-> "ninf", n |-> 0, d |-> 1]

\* the float a / b for integers a and b, b # 0
Q(a, b) == IF b < 0 THEN [k |-> "fin", n |-> 0 - a, d |-> 0 - b]
                    ELSE [k |-> "fin", n |-> a, d |-> b]

isnan(x) == x.k = "nan"

IsFinite(x) == x.k = "fin"

\* x > 0, x a float (False for nan)
GtZero(x) == \/ x.k = "pinf"
             \/ x.k = "fin" /\ x.n > 0

\* x == 0
EqZero(x) == x.k = "fin" /\ x.n = 0

\* x >= p / q for a float x and the literal p / q (q > 0); False for nan
GeLit(x, p, q) == \/ x.k = "pinf"
                  \/ x.k = "fin" /\ x.n * q >= p * x.d

\* a faulty variant of GtFin: >= for >
GtFinOrEqual(x, y) == x.n * y.d >= y.n * x.d

\* x > y for two finite floats (last_close against a moving average)
GtFin(x, y) == x.n * y.d > y.n * x.d

\* x == y as numbers
EqNum(x, y) == \/ x.k # "fin" /\ x.k = y.k /\ x.k # "nan"
               \/ x.k = "fin" /\ y.k = "fin" /\ x.n * y.d = y.n * x.d

\* numpy float64 division x / y of two finite floats: no exception on a zero
\* divisor, the result is inf, -inf or nan
NpDiv(x, y) ==
    IF y.n = 0
    THEN IF x.n > 0 THEN PosInf ELSE IF x.n < 0 THEN NegInf ELSE NaN
    ELSE IF x.d = y.d THEN Q(x.n, y.n)
    ELSE Q(x.n * y.d, y.n * x.d)

\* x - 1.0
SubOne(x) == IF x.k = "fin" THEN Q(x.n - x.d, x.d) ELSE x

(***************************************************************************)
(* The bar table.  A cell is a non-negative integer or Null (NaN).  The    *)
(* provider's bars for one ticker are described by a shape; BarsOf expands *)
(* a shape into the ticker's sub-frame: the set of columns present and     *)
(* one cell per table row for each.                                        *)
(***************************************************************************)
Null == 0 - 1

\* 100.000 in thousandths
PxUnit == 100 * 1000

\* rows of a bar table
RawLens == MinBars .. (MinBars + ExtraBars)

\* the step series: HeadLen rows at level a, then level b, the last k rows
\* at level c
HeadLen == 30

TailLens == {5, 40}

HighKinds == {"missing", "allnull", "zero", "eq", "up2"}

VolKinds == {"missing", "allnull", "flat", "surge", "fade"}

\* closes rising 1% a day from 100.000: GrowthCol[i] is 100 * 1.01^(i-1)
\* rounded to the thousandth
GrowthCol ==
    <<
      100000, 101000, 102010, 103030, 104060, 105101, 106152, 107214,
      108286, 109369, 110462, 111567, 112683, 113809, 114947, 116097,
      117258, 118430, 119615, 120811, 122019, 123239, 124472, 125716,
      126973, 128243, 129526, 130821, 132129, 133450, 134785, 136133,
      137494, 138869, 140258, 141660, 143077, 144508, 145953, 147412,
      148886, 150375, 151879, 153398, 154932, 156481, 158046, 159626,
      161223, 162835, 164463, 166108, 167769, 169447, 171141, 172852,
      174581, 176327, 178090, 179871, 181670, 183486, 185321, 187174,
      189046, 190937, 192846, 194774, 196722, 198689, 200676, 202683,
      204710, 206757, 208825, 210913, 213022, 215152, 217304, 219477,
      221672, 223888, 226127, 228388, 230672, 232979, 235309, 237662,
      240038, 242439, 244863, 247312, 249785, 252283, 254806, 257354,
      259927, 262527, 265152, 267803, 270481, 273186, 275918, 278677,
      281464, 284279, 287121, 289993, 292893, 295822, 298780, 301768,
      304785, 307833, 310911, 314020, 317161, 320332, 323536, 326771,
      330039, 333339, 336672, 340039, 343440, 346874, 350343, 353846,
      357385, 360958, 364568, 368214, 371896, 375615, 379371, 383165,
      386996, 390866, 394775, 398723, 402710, 406737, 410804, 414912,
      419062, 423252, 427485, 431760, 436077, 440438, 444842, 449291,
      453784, 458321, 462905, 467534, 472209, 476931, 481700, 486517,
      491383, 496296, 501259, 506272, 511335, 516448, 521613, 526829,
      532097, 537418, 542792, 548220, 553702, 559239, 564832, 570480,
      576185, 581947, 587766, 593644, 599580, 605576, 611632, 617748,
      623926, 630165, 636466, 642831, 649259, 655752, 662310, 668933,
      675622, 682378, 689202, 696094, 703055, 710085, 717186, 724358,
      731602, 738918, 746307, 753770, 761308, 768921, 776610, 784376,
      792220, 800142, 808144, 816225, 824387, 832631, 840957, 849367,
      857861, 866439, 875104, 883855, 892693, 901620, 910636, 919743,
      928940, 938230, 947612, 957088, 966659, 976325, 986089, 995950,
      1005909, 1015968, 1026128, 1036389, 1046753, 1057221, 1067793, 1078471,
      1089255, 1100148, 1111149, 1122261, 1133484, 1144818, 1156267, 1167829,
      1179507, 1191303, 1203216, 1215248, 1227400, 1239674, 1252071, 1264592
    >>

\* the step shapes: every high kind with flat volume, every volume kind
\* with high equal to close
StepShapes ==
    {sh \in [kind : {"step"}, a : 0 .. MaxPx, b : 0 .. MaxPx, c : 0 .. MaxPx,
             k : TailLens, cn : 0 .. MaxNulls, hk : HighKinds, vk : VolKinds] :
        sh.hk = "eq" \/ sh.vk = "flat"}

\* the two scenario series: 1% a day from 100, and flat at 100 with
\* volume flat at 1000; high equals close
ScenarioShapes ==
    [kind : {"growth", "flat"}, a : {0}, b : {0}, c : {0}, k : {0},
     cn : 0 .. MaxNulls, hk : {"eq"}, vk : {"flat"}]

\* bars without a Close column
NoCloseShapes ==
    [kind : {"noclose"}, a : {0}, b : {0}, c : {0}, k : {0},
     cn : {0}, hk : {"eq"}, vk : {"flat"}]

\* close of the j-th bar (j = 1 for the first non-null row) of n bars
ClosePx(sh, j, n) ==
    CASE sh.kind = "growth" -> GrowthCol[j]
      [] sh.kind = "flat" -> PxUnit
      [] OTHER -> IF j > n - sh.k THEN sh.c * PxUnit
                  ELSE IF j <= HeadLen THEN sh.a * PxUnit
                  ELSE sh.b * PxUnit

HighPx(sh, px) ==
    CASE sh.hk = "zero" -> 0
      [] sh.hk = "up2" -> (px * 102) \div 100
      [] sh.hk = "allnull" -> Null
      [] OTHER -> px

VolOf(sh, j, n) ==
    CASE sh.vk = "allnull" -> Null
      [] sh.vk = "surge" -> IF j > n - 10 THEN 2000 ELSE 1000
      [] sh.vk = "fade" -> IF j > n - 10 THEN 0 ELSE 1000
      [] OTHER -> 1000

\* df[ticker] for a ticker whose bars have shape sh in a table of rawLen rows
BarsOf(sh, rawLen) ==
    LET n == rawLen - sh.cn
    IN [columns |-> {"Open"}
                    \cup (IF sh.kind = "noclose" THEN {} ELSE {"Close"})
                    \cup (IF sh.hk = "missing" THEN {} ELSE {"High"})
                    \cup (IF sh.vk = "missing" THEN {} ELSE {"Volume"}),
        Close |-> [i \in 1 .. rawLen |->
                     IF i <= sh.cn \/ sh.kind = "noclose" THEN Null
                     ELSE ClosePx(sh, i - sh.cn, n)],
        High |-> [i \in 1 .. rawLen |->
                     IF i <= sh.cn \/ sh.hk = "missing" THEN Null
                     ELSE HighPx(sh, ClosePx(sh, i - sh.cn, n))],
        Volume |-> [i \in 1 .. rawLen |->
                     IF i <= sh.cn \/ sh.vk = "missing" THEN Null
                     ELSE VolOf(sh, i - sh.cn, n)]]

(***************************************************************************)
(* pandas Series operations used by the indicator computation.             *)
(***************************************************************************)
dropna(col) == SelectSeq(col, LAMBDA x : x # Null)

fillna0(col) == [i \in DOMAIN col |-> IF col[i] = Null THEN 0 ELSE col[i]]

\* s[lo] + ... + s[hi], by halves
RECURSIVE SumRange(_, _, _)
SumRange(s, lo, hi) ==
    IF lo > hi THEN 0
    ELSE IF lo = hi THEN s[lo]
    ELSE LET mid == (lo + hi) \div 2
         IN SumRange(s, lo, mid) + SumRange(s, mid + 1, hi)

Max2(x, y) == IF x > y THEN x ELSE y

\* max(s[lo], ..., s[hi]), lo <= hi, by halves
RECURSIVE MaxRange(_, _, _)
MaxRange(s, lo, hi) ==
    IF lo >= hi THEN s[hi]
    ELSE LET mid == (lo + hi) \div 2
         IN Max2(MaxRange(s, lo, mid), MaxRange(s, mid + 1, hi))

\* s.rolling(w).mean().iloc[-back]: nan until the window is full
RollingMean(s, w, back) ==
    LET hi == Len(s) - back + 1
    IN IF hi < w THEN NaN ELSE Q(SumRange(s, hi - w + 1, hi), w)

\* s.rolling(w).max().iloc[-1], s not empty
RollingMaxLast(s, w) ==
    IF Len(s) < w THEN NaN ELSE Q(MaxRange(s, Len(s) - w + 1, Len(s)), 1)

\* s.tail(w).max(): nan for an empty series
TailMax(s, w) ==
    IF w = 0 THEN NaN ELSE Q(MaxRange(s, Len(s) - w + 1, Len(s)), 1)

\* s.tail(w).mean(), Len(s) >= w
TailMean(s, w) == Q(SumRange(s, Len(s) - w + 1, Len(s)), w)

\* len(s.rolling(w).mean().dropna())
RollingCount(s, w) == IF Len(s) < w THEN 0 ELSE Len(s) - w + 1

(***************************************************************************)
(* _safe_pct and compute_metrics_for_ticker.                               *)
(***************************************************************************)
\* the Optional[Metrics] value None
None == [none |-> TRUE]

IsNone(m) == "none" \in DOMAIN m

\* a faulty variant of _safe_pct: the reference value one bar too late
_safe_pct_off_by_one(a, n) ==
    IF Len(a) <= n THEN NaN
    ELSE LET old == a[Len(a) - n + 1]
             new == a[Len(a)]
         IN IF old = 0 THEN NaN ELSE SubOne(Q(new, old))

\* _safe_pct(a, n): a has no nan (dropna), so only the length and the
\* zero reference value yield nan
_safe_pct(a, n) ==
    IF Len(a) <= n THEN NaN
    ELSE LET old == a[Len(a) - n]
             new == a[Len(a)]
         IN IF old = 0 THEN NaN ELSE SubOne(Q(new, old))

\* a DataFrame: multi says whether the columns are a (ticker, field)
\* MultiIndex; bars maps each ticker of the frame to its shape (a frame
\* without the ticker level holds one series, under whatever key)
FrameTickers(df) == DOMAIN df.bars

\* a frame without columns
NoColumns == [columns |-> {}, Close |-> << >>, High |-> << >>, Volume |-> << >>]

\* sub = df[ticker].copy() / df.copy()
SubFrame(df, ticker) ==
    IF df.multi THEN BarsOf(df.bars[ticker], df.rawLen)
    ELSE IF DOMAIN df.bars = {} THEN NoColumns
    ELSE BarsOf(df.bars[CHOOSE t \in DOMAIN df.bars : TRUE], df.rawLen)

\* a faulty variant of TooShort: the gate one bar too low
TooShortOffByOne(close) == Len(close) < MinBars - 1

\* if len(close) < 250: return None
TooShort(close) == Len(close) < MinBars

\* the body of the try block from the length check on: sub has Close,
\* High and Volume
MetricsOfSeries(close, high, vol, ticker, name) ==
    IF TooShort(close) THEN None
    \* high.rolling(20).max().iloc[-1] raises IndexError on an empty series
    ELSE IF Len(high) = 0 THEN None
    ELSE
    LET last_close == Q(close[Len(close)], 1)
        ma20 == RollingMean(close, 20, 1)
        ma50 == RollingMean(close, 50, 1)
        ma200 == RollingMean(close, 200, 1)
        ma200_back == RollingMean(close, 200, SlopeLag)
        high20 == RollingMaxLast(high, 20)
        window_252 == IF Len(high) < Win52w THEN Len(high) ELSE Win52w
        high252 == TailMax(high, window_252)
        v10 == TailMean(vol, 10)
        v20 == TailMean(vol, 20)
    IN [ticker |-> ticker,
        name |-> name,
        last_close |-> last_close,
        ret_5 |-> _safe_pct(close, 5),
        ret_20 |-> _safe_pct(close, 20),
        ret_60 |-> _safe_pct(close, 60),
        ret_120 |-> _safe_pct(close, 120),
        ret_250 |-> IF Len(close) > 250 THEN _safe_pct(close, 250) ELSE NaN,
        above_ma20 |-> GtFin(last_close, ma20),
        above_ma50 |-> GtFin(last_close, ma50),
        above_ma200 |-> GtFin(last_close, ma200),
        ma200_slope_20d |->
            IF RollingCount(close, 200) >= SlopeLag
            THEN SubOne(NpDiv(ma200, ma200_back)) ELSE NaN,
        prox_20h |-> IF GtZero(high20) THEN Q(last_close.n, high20.n) ELSE NaN,
        prox_52wh |-> IF GtZero(high252) THEN Q(last_close.n, high252.n) ELSE NaN,
        vol_ratio_10_20 |->
            IF GtZero(v20) THEN Q(v10.n * v20.d, v20.n * v10.d) ELSE NaN]

\* a faulty variant of compute_metrics_for_ticker: the ticker level is not
\* looked at and the frame is read as one ticker's series
compute_metrics_any_ticker(df, ticker, name) ==
    LET sub == SubFrame([df EXCEPT !.multi = FALSE], ticker)
    IN IF ~({"Close", "High", "Volume"} \subseteq sub.columns) THEN None
       ELSE MetricsOfSeries(dropna(sub.Close), dropna(sub.High),
                            fillna0(sub.Volume), ticker, name)

compute_metrics_for_ticker(df, ticker, name) ==
    IF df.multi /\ ticker \notin FrameTickers(df) THEN None
    ELSE LET sub == SubFrame(df, ticker)
         IN IF ~({"Close", "High", "Volume"} \subseteq sub.columns) THEN None
            ELSE MetricsOfSeries(dropna(sub.Close), dropna(sub.High),
                                 fillna0(sub.Volume), ticker, name)

(***************************************************************************)
(* Arbitrary-precision arithmetic for the scores.  A magnitude is a        *)
(* sequence of limbs in 0 .. BigBase - 1, least significant first, with no *)
(* leading zero limb (zero is << >>); a signed integer is [neg, mag].      *)
(***************************************************************************)
BigBase == 10 * 1000

RECURSIVE BigOfNat(_)
BigOfNat(x) ==
    IF x = 0 THEN << >> ELSE <<x % BigBase>> \o BigOfNat(x \div BigBase)

RECURSIVE BigNorm(_)
BigNorm(a) ==
    IF a = << >> THEN << >>
    ELSE IF a[Len(a)] = 0 THEN BigNorm(SubSeq(a, 1, Len(a) - 1))
    ELSE a

BigRest(a) == IF a = << >> THEN << >> ELSE Tail(a)

BigLow(a) == IF a = << >> THEN 0 ELSE Head(a)

RECURSIVE BigAddC(_, _, _)
BigAddC(a, b, carry) ==
    IF a = << >> /\ b = << >>
    THEN IF carry = 0 THEN << >> ELSE <<carry>>
    ELSE LET t == BigLow(a) + BigLow(b) + carry
         IN <<t % BigBase>> \o BigAddC(BigRest(a), BigRest(b), t \div BigBase)

BigAdd(a, b) == BigAddC(a, b, 0)

\* a - b - borrow for a >= b + borrow; limbs not yet normalised
RECURSIVE BigSubB(_, _, _)
BigSubB(a, b, borrow) ==
    IF a = << >> THEN << >>
    ELSE LET t == BigLow(a) - BigLow(b) - borrow
         IN IF t < 0
            THEN <<t + BigBase>> \o BigSubB(BigRest(a), BigRest(b), 1)
            ELSE <<t>> \o BigSubB(BigRest(a), BigRest(b), 0)

BigSub(a, b) == BigNorm(BigSubB(a, b, 0))

\* a * m + carry for one limb m
RECURSIVE BigMulLimb(_, _, _)
BigMulLimb(a, m, carry) ==
    IF a = << >>
    THEN IF carry = 0 THEN << >> ELSE <<carry>>
    ELSE LET t == Head(a) * m + carry
         IN <<t % BigBase>> \o BigMulLimb(Tail(a), m, t \div BigBase)

BigShift(a) == IF a = << >> THEN << >> ELSE <<0>> \o a

RECURSIVE BigMul(_, _)
BigMul(a, b) ==
    IF a = << >> \/ b = << >> THEN << >>
    ELSE BigAdd(BigNorm(BigMulLimb(a, Head(b), 0)),
                BigShift(BigMul(a, Tail(b))))

\* -1, 0, 1 as a < b, a = b, a > b
RECURSIVE BigCmpFrom(_, _, _)
BigCmpFrom(a, b, i) ==
    IF i = 0 THEN 0
    ELSE IF a[i] < b[i] THEN 0 - 1
    ELSE IF a[i] > b[i] THEN 1
    ELSE BigCmpFrom(a, b, i - 1)

BigCmp(a, b) ==
    IF Len(a) < Len(b) THEN 0 - 1
    ELSE IF Len(a) > Len(b) THEN 1
    ELSE BigCmpFrom(a, b, Len(a))

SBig(neg, mag) == [neg |-> neg /\ mag # << >>, mag |-> mag]

SOfInt(x) == IF x < 0 THEN SBig(TRUE, BigOfNat(0 - x)) ELSE SBig(FALSE, BigOfNat(x))

SAdd(x, y) ==
    IF x.neg = y.neg THEN SBig(x.neg, BigAdd(x.mag, y.mag))
    ELSE IF BigCmp(x.mag, y.mag) >= 0 THEN SBig(x.neg, BigSub(x.mag, y.mag))
    ELSE SBig(y.neg, BigSub(y.mag, x.mag))

SMul(x, y) == SBig(x.neg # y.neg, BigMul(x.mag, y.mag))

SNeg(x) == SBig(~x.neg, x.mag)

\* the sign of x: -1, 0 or 1
SSign(x) == IF x.mag = << >> THEN 0 ELSE IF x.neg THEN 0 - 1 ELSE 1

(***************************************************************************)
(* Float arithmetic of the score expressions.  The operands of a term are  *)
(* indicator values (machine-size rationals); a weighted term and the sum  *)
(* of the terms are floats with arbitrary-precision numerator and          *)
(* denominator: [k, n |-> signed, d |-> signed, positive].                 *)
(***************************************************************************)
\* x - p / q for a float x and the literal p / q
SubLit(x, p, q) == IF x.k = "fin" THEN Q(x.n * q - p * x.d, x.d * q) ELSE x

\* Python min(x, p): p if p < x else x  (x not nan)
MinLit(x, p) ==
    IF x.k = "pinf" \/ (x.k = "fin" /\ p * x.d < x.n) THEN Q(p, 1) ELSE x

\* the float x * w for the literal weight w > 0
Weighted(x, w) ==
    [k |-> x.k,
     n |-> IF x.k = "fin" THEN SMul(SOfInt(x.n), SOfInt(w)) ELSE SOfInt(0),
     d |-> IF x.k = "fin" THEN SOfInt(x.d) ELSE SOfInt(1)]

FNaN == [k |-> "nan", n |-> SOfInt(0), d |-> SOfInt(1)]

\* the float x + y
FAdd(x, y) ==
    IF x.k = "nan" \/ y.k = "nan" THEN FNaN
    ELSE IF x.k = "fin" /\ y.k = "fin"
    THEN [k |-> "fin",
          n |-> SAdd(SMul(x.n, y.d), SMul(y.n, x.d)),
          d |-> SMul(x.d, y.d)]
    ELSE IF x.k = "fin" THEN y
    ELSE IF y.k = "fin" \/ y.k = x.k THEN x
    ELSE FNaN

\* x < y on floats; False when either is nan
FLess(x, y) ==
    IF x.k = "nan" \/ y.k = "nan" THEN FALSE
    ELSE IF x.k = "pinf" \/ y.k = "ninf" THEN FALSE
    ELSE IF x.k = "ninf" \/ y.k = "pinf" THEN TRUE
    ELSE SSign(SAdd(SMul(x.n, y.d), SNeg(SMul(y.n, x.d)))) < 0

\* 0.0 if math.isnan(x) else x
ZeroIfNaN(x) == IF isnan(x) THEN Q(0, 1) ELSE x

(***************************************************************************)
(* The three screens: filter, score, sort by score descending.             *)
(***************************************************************************)
\* a faulty variant of InsertDesc: e goes before the elements equal to it
RECURSIVE InsertDescUnstable(_, _)
InsertDescUnstable(sorted, e) ==
    IF sorted = << >> THEN <<e>>
    ELSE IF ~FLess(e.score, Head(sorted).score) THEN <<e>> \o sorted
    ELSE <<Head(sorted)>> \o InsertDescUnstable(Tail(sorted), e)

\* the place where list.sort(reverse=True) leaves e among the already
\* sorted elements: after every element that is not smaller
RECURSIVE InsertDesc(_, _)
InsertDesc(sorted, e) ==
    IF sorted = << >> THEN <<e>>
    ELSE IF FLess(Head(sorted).score, e.score) THEN <<e>> \o sorted
    ELSE <<Head(sorted)>> \o InsertDesc(Tail(sorted), e)

\* out.sort(key=lambda x: x[1], reverse=True): a stable sort
RECURSIVE SortDesc(_)
SortDesc(out) ==
    IF out = << >> THEN << >>
    ELSE InsertDesc(SortDesc(SubSeq(out, 1, Len(out) - 1)), out[Len(out)])

\* a faulty variant of ShortFilter: the volume ratio is not asked for
ShortFilterNoVolume(m) ==
    /\ m.above_ma20 /\ m.above_ma50
    /\ ~isnan(m.prox_20h) /\ GeLit(m.prox_20h, 97, 100)

ShortFilter(m) ==
    /\ m.above_ma20 /\ m.above_ma50
    /\ ~isnan(m.prox_20h) /\ GeLit(m.prox_20h, 97, 100)
    /\ ~isnan(m.vol_ratio_10_20) /\ GeLit(m.vol_ratio_10_20, 9, 10)

ShortScore(m) ==
    LET r5 == ZeroIfNaN(m.ret_5)
        r20 == ZeroIfNaN(m.ret_20)
        prox20 == IF isnan(m.prox_20h) THEN Q(0, 1) ELSE SubLit(m.prox_20h, 95, 100)
        vr == IF isnan(m.vol_ratio_10_20) THEN Q(0, 1)
              ELSE SubOne(MinLit(m.vol_ratio_10_20, 2))
    IN FAdd(FAdd(FAdd(Weighted(r5, 100), Weighted(r20, 50)),
                 Weighted(prox20, 20)),
            Weighted(vr, 10))

MidFilter(m) ==
    /\ m.above_ma50 /\ m.above_ma200
    /\ ~isnan(m.ma200_slope_20d) /\ GtZero(m.ma200_slope_20d)
    /\ ~isnan(m.ret_60) /\ GtZero(m.ret_60)

MidScore(m) ==
    LET r60 == ZeroIfNaN(m.ret_60)
        r120 == ZeroIfNaN(m.ret_120)
        prox52 == IF isnan(m.prox_52wh) THEN Q(0, 1) ELSE SubLit(m.prox_52wh, 9, 10)
        slope == ZeroIfNaN(m.ma200_slope_20d)
    IN FAdd(FAdd(FAdd(Weighted(r60, 100), Weighted(r120, 50)),
                 Weighted(prox52, 15)),
            Weighted(slope, 30))

\* a faulty variant of LongFilter: the 250-day return is not asked for
LongFilterNoReturn(m) ==
    /\ m.above_ma200
    /\ ~isnan(m.ma200_slope_20d) /\ GtZero(m.ma200_slope_20d)

LongFilter(m) ==
    /\ m.above_ma200
    /\ ~isnan(m.ma200_slope_20d) /\ GtZero(m.ma200_slope_20d)
    /\ ~isnan(m.ret_250) /\ GtZero(m.ret_250)

LongScore(m) ==
    LET r250 == ZeroIfNaN(m.ret_250)
        slope == ZeroIfNaN(m.ma200_slope_20d)
        prox52 == IF isnan(m.prox_52wh) THEN Q(0, 1) ELSE SubLit(m.prox_52wh, 9, 10)
    IN FAdd(FAdd(Weighted(r250, 80), Weighted(slope, 40)), Weighted(prox52, 20))

Horizons == {"short", "mid", "long"}

FilterOf(tf, m) ==
    CASE tf = "short" -> ShortFilter(m)
      [] tf = "mid" -> MidFilter(m)
      [] OTHER -> LongFilter(m)

ScoreOf(tf, m) ==
    CASE tf = "short" -> ShortScore(m)
      [] tf = "mid" -> MidScore(m)
      [] OTHER -> LongScore(m)

\* filtered = [m for m in metrics if ...]; out = [(m, score) ...]
RECURSIVE Scored(_, _)
Scored(metrics, tf) ==
    IF metrics = << >> THEN << >>
    ELSE LET m == Head(metrics)
             rest == Scored(Tail(metrics), tf)
         IN IF FilterOf(tf, m) THEN <<[m |-> m, score |-> ScoreOf(tf, m)]>> \o rest
            ELSE rest

screen_short(metrics) == SortDesc(Scored(metrics, "short"))

screen_mid(metrics) == SortDesc(Scored(metrics, "mid"))

screen_long(metrics) == SortDesc(Scored(metrics, "long"))

\* lst[:n] for n >= 0
Take(lst, n) == SubSeq(lst, 1, IF n < Len(lst) THEN n ELSE Len(lst))

(***************************************************************************)
(* format_pct, explain and print_list.  A rendered number is carried as    *)
(* the number itself; what is modelled is which texts are produced.        *)
(***************************************************************************)
Dash == [k |-> "dash", n |-> 0, d |-> 1]

NoArg == [k |-> "none", n |-> 0, d |-> 1]

\* "-" for nan, else the percentage text of x
format_pct(x) == IF isnan(x) THEN Dash ELSE x

Frag(text, arg) == [text |-> text, arg |-> arg]

\* a faulty variant of PartIf: the fragment is appended whatever cond is
PartAlways(cond, text, arg) == <<Frag(text, arg)>>

\* parts.append(text) if cond
PartIf(cond, text, arg) == IF cond THEN <<Frag(text, arg)>> ELSE << >>

explain(m, tf) ==
    PartIf(~isnan(m.ret_5), "5d", format_pct(m.ret_5))
    \o PartIf(~isnan(m.ret_20), "1m", format_pct(m.ret_20))
    \o PartIf(~isnan(m.ret_60), "3m", format_pct(m.ret_60))
    \o PartIf(~isnan(m.ret_120), "6m", format_pct(m.ret_120))
    \o PartIf(~isnan(m.vol_ratio_10_20), "vol10/20", m.vol_ratio_10_20)
    \o (IF ~isnan(m.prox_20h)
        THEN IF GeLit(m.prox_20h, 99, 100)
             THEN <<Frag("20d-high-zone", NoArg)>>
             ELSE <<Frag("to-20d-high", m.prox_20h)>>
        ELSE << >>)
    \o (IF ~isnan(m.prox_52wh)
        THEN IF GeLit(m.prox_52wh, 1, 1)
             THEN <<Frag("52w-high-new", NoArg)>>
             ELSE IF GeLit(m.prox_52wh, 97, 100)
             THEN <<Frag("52w-high-zone", NoArg)>>
             ELSE <<Frag("to-52w-high", m.prox_52wh)>>
        ELSE << >>)
    \o (CASE tf = "short" ->
              PartIf(m.above_ma20 /\ m.above_ma50, "above-20/50", NoArg)
          [] tf = "mid" ->
              PartIf(m.above_ma50 /\ m.above_ma200, "above-50/200", NoArg)
              \o PartIf(~isnan(m.ma200_slope_20d) /\ GtZero(m.ma200_slope_20d),
                        "ma200-rising", m.ma200_slope_20d)
          [] tf = "long" ->
              PartIf(m.above_ma200, "above-200", NoArg)
              \o PartIf(~isnan(m.ma200_slope_20d) /\ GtZero(m.ma200_slope_20d),
                        "ma200-rising", m.ma200_slope_20d)
              \o PartIf(~isnan(m.ret_250), "12m", format_pct(m.ret_250))
          [] OTHER -> << >>)

\* the tags of the note column
NoteParts(m) ==
    (IF ~isnan(m.prox_20h) /\ GeLit(m.prox_20h, 99, 100)
     THEN <<"near-20d-high">> ELSE << >>)
    \o (IF ~isnan(m.prox_52wh) /\ GeLit(m.prox_52wh, 99, 100)
        THEN <<"near-52w-high">> ELSE << >>)
    \o (IF ~isnan(m.vol_ratio_10_20) /\ GeLit(m.vol_ratio_10_20, 11, 10)
        THEN <<"vol-up">> ELSE << >>)

\* the two lines printed for one candidate
Row(m, tf) ==
    [line |-> "row",
     ticker |-> m.ticker,
     name |-> m.name,
     cells |-> <<format_pct(m.ret_5), format_pct(m.ret_20),
                 format_pct(m.ret_60), format_pct(m.ret_120),
                 format_pct(IF ~isnan(m.prox_52wh) THEN SubOne(m.prox_52wh)
                            ELSE NaN),
                 m.vol_ratio_10_20>>,
     note |-> NoteParts(m),
     parts |-> explain(m, tf)]

\* the horizon print_list derives from its title
TitleHorizon(title) ==
    IF title = "Short-term candidates" THEN "short"
    ELSE IF title = "Mid-term candidates" THEN "mid"
    ELSE "long"

\* the lines print_list(title, lst) prints: title and header, then
\* "(no candidates)" or the rows
print_list(title, lst) ==
    <<[line |-> "title", title |-> title]>>
    \o (IF lst = << >> THEN <<[line |-> "(no candidates)"]>>
        ELSE [i \in 1 .. Len(lst) |-> Row(lst[i].m, TitleHorizon(title))])

(***************************************************************************)
(* State.                                                                  *)
(***************************************************************************)
VARIABLES
    pc,          \* where the run (or the direct call) stands
    tickers,     \* the universe, in the provider's order
    top,         \* args.top
    chunk_size,  \* args.chunk_size
    rawLen,      \* rows of the provider's calendar
    cpos,        \* download_ohlcv: start of the next chunk
    frames,      \* download_ohlcv: the frames kept so far
    stderr,      \* the chunks reported as failed
    data,        \* the bar table
    idx,         \* main: tickers[1 .. idx] have been processed
    metrics,     \* main: the vectors computed so far
    short,       \* the three candidate lists
    mid,
    long,
    out,         \* the lines printed
    tf,          \* direct call of explain: the horizon
    parts        \* direct call of explain: the result

vars == <<pc, tickers, top, chunk_size, rawLen, cpos, frames, stderr, data,
          idx, metrics, short, mid, long, out, tf, parts>>

\* pd.DataFrame()
EmptyFrame == [multi |-> FALSE, rawLen |-> 0, bars |-> << >>]

\* a faulty variant of IsEmpty: no frame counts as empty
IsEmptyNever(df) == FALSE

IsEmpty(df) == DOMAIN df.bars = {}

\* name_map.get(t, t)
NameOf(t) == <<"name", t>>

(***************************************************************************)
(* The run of main.                                                        *)
(***************************************************************************)
Universes ==
    {<< >>, <<"7203.T">>, <<"9984.T", "7203.T", "6758.T">>}

Growth == [kind |-> "growth", a |-> 0, b |-> 0, c |-> 0, k |-> 0, cn |-> 0,
           hk |-> "eq", vk |-> "flat"]

Flat == [kind |-> "flat", a |-> 0, b |-> 0, c |-> 0, k |-> 0, cn |-> 0,
         hk |-> "eq", vk |-> "flat"]

\* a step up in the last five bars, listed MaxNulls rows late
StepUp == [kind |-> "step", a |-> 1, b |-> 1, c |-> 2, k |-> 5, cn |-> MaxNulls,
           hk |-> "eq", vk |-> "flat"]

\* what the provider may hold for a ticker
ProviderShapes == {Growth, Flat, StepUp}

Init ==
    /\ pc = "start"
    /\ tickers \in Universes
    /\ top \in (0 - 1) .. MaxTop
    /\ chunk_size \in 0 .. MaxChunk
    /\ rawLen \in RawLens
    /\ cpos = 0
    /\ frames = << >>
    /\ stderr = << >>
    /\ data = EmptyFrame
    /\ idx = 0
    /\ metrics = << >>
    /\ short = << >>
    /\ mid = << >>
    /\ long = << >>
    /\ out = << >>
    /\ tf = ""
    /\ parts = << >>

\* print(f"Universe: {len(tickers)} tickers ...")
PrintUniverse ==
    /\ pc = "start"
    /\ out' = Append(out, [line |-> "Universe", n |-> Len(tickers)])
    /\ pc' = "download"
    /\ UNCHANGED <<tickers, top, chunk_size, rawLen, cpos, frames, stderr,
                   data, idx, metrics, short, mid, long, tf, parts>>

\* chunked raises ValueError for a size <= 0; nothing in download_ohlcv or
\* main catches it
ChunkedRaises ==
    /\ pc = "download"
    /\ chunk_size <= 0
    /\ pc' = "raised"
    /\ UNCHANGED <<tickers, top, chunk_size, rawLen, cpos, frames, stderr,
                   data, idx, metrics, short, mid, long, out, tf, parts>>

\* seq[i : i + size]
Chunk(seq, i, size) ==
    SubSeq(seq, i + 1, IF i + size < Len(seq) THEN i + size ELSE Len(seq))

Range(seq) == {seq[i] : i \in DOMAIN seq}

\* yf.download raises: the chunk is reported and skipped
DownloadFails ==
    /\ pc = "download"
    /\ chunk_size > 0
    /\ cpos < Len(tickers)
    /\ stderr' = Append(stderr, Chunk(tickers, cpos, chunk_size))
    /\ cpos' = cpos + chunk_size
    /\ UNCHANGED <<pc, tickers, top, chunk_size, rawLen, frames, data, idx,
                   metrics, short, mid, long, out, tf, parts>>

\* yf.download returns bars for some of the chunk's tickers; an empty
\* frame is skipped.  A single-ticker answer without the ticker level gets
\* it back as subset[0], which is the same frame.
DownloadChunk ==
    /\ pc = "download"
    /\ chunk_size > 0
    /\ cpos < Len(tickers)
    /\ \E got \in SUBSET Range(Chunk(tickers, cpos, chunk_size)) :
         \E df \in [got -> ProviderShapes] :
            frames' = IF got = {} THEN frames ELSE Append(frames, df)
    /\ cpos' = cpos + chunk_size
    /\ UNCHANGED <<pc, tickers, top, chunk_size, rawLen, stderr, data, idx,
                   metrics, short, mid, long, out, tf, parts>>

\* pd.concat(frames, axis=1) without the duplicated columns
RECURSIVE ConcatBars(_)
ConcatBars(fs) == IF fs = << >> THEN << >> ELSE Head(fs) @@ ConcatBars(Tail(fs))

\* the end of download_ohlcv
ReturnData ==
    /\ pc = "download"
    /\ chunk_size > 0
    /\ cpos >= Len(tickers)
    /\ data' = IF frames = << >> THEN EmptyFrame
               ELSE [multi |-> TRUE, rawLen |-> rawLen, bars |-> ConcatBars(frames)]
    /\ frames' = << >>
    /\ cpos' = 0
    /\ pc' = "loaded"
    /\ UNCHANGED <<tickers, top, chunk_size, rawLen, stderr, idx, metrics,
                   short, mid, long, out, tf, parts>>

\* if data.empty: print(...); return
AbortNoData ==
    /\ pc = "loaded"
    /\ IsEmpty(data)
    /\ out' = Append(out, [line |-> "No price data downloaded; aborting."])
    /\ pc' = "done"
    /\ UNCHANGED <<tickers, top, chunk_size, rawLen, cpos, frames, stderr,
                   data, idx, metrics, short, mid, long, tf, parts>>

\* metrics.append(m) if m is not None
AppendMetrics(ms, m) == IF IsNone(m) THEN ms ELSE Append(ms, m)

\* one turn of "for t in tickers"
ComputeNext ==
    /\ pc = "loaded"
    /\ ~IsEmpty(data)
    /\ idx < Len(tickers)
    /\ LET t == tickers[idx + 1]
       IN metrics' = AppendMetrics(metrics,
                                   compute_metrics_for_ticker(data, t, NameOf(t)))
    /\ idx' = idx + 1
    /\ UNCHANGED <<pc, tickers, top, chunk_size, rawLen, cpos, frames, stderr,
                   data, short, mid, long, out, tf, parts>>

\* after the loop: the counter, and the early return when nothing was
\* computed
ReportMetrics ==
    /\ pc = "loaded"
    /\ ~IsEmpty(data)
    /\ idx = Len(tickers)
    /\ IF metrics = << >>
       THEN /\ out' = out \o <<[line |-> "Computed metrics for", n |-> 0],
                                [line |-> "No securities passed the data sufficiency filters."]>>
            /\ pc' = "done"
       ELSE /\ out' = Append(out, [line |-> "Computed metrics for", n |-> Len(metrics)])
            /\ pc' = "screen"
    /\ UNCHANGED <<tickers, top, chunk_size, rawLen, cpos, frames, stderr,
                   data, idx, metrics, short, mid, long, tf, parts>>

\* top_n = max(args.top, 0)
TopN(n) == IF n > 0 THEN n ELSE 0

ScreenAll ==
    /\ pc = "screen"
    /\ short' = Take(screen_short(metrics), TopN(top))
    /\ mid' = Take(screen_mid(metrics), TopN(top))
    /\ long' = Take(screen_long(metrics), TopN(top))
    /\ pc' = "print"
    /\ UNCHANGED <<tickers, top, chunk_size, rawLen, cpos, frames, stderr,
                   data, idx, metrics, out, tf, parts>>

PrintLists ==
    /\ pc = "print"
    /\ out' = out \o print_list("Short-term candidates", short)
                  \o print_list("Mid-term candidates", mid)
                  \o print_list("Long-term candidates", long)
    /\ pc' = "done"
    /\ UNCHANGED <<tickers, top, chunk_size, rawLen, cpos, frames, stderr,
                   data, idx, metrics, short, mid, long, tf, parts>>

Next ==
    \/ PrintUniverse
    \/ ChunkedRaises
    \/ DownloadFails
    \/ DownloadChunk
    \/ ReturnData
    \/ AbortNoData
    \/ ComputeNext
    \/ ReportMetrics
    \/ ScreenAll
    \/ PrintLists

Spec == Init /\ [][Next]_vars

(***************************************************************************)
(* Direct calls: compute_metrics_for_ticker on one frame, then the three   *)
(* screens on the one-element metrics list and explain for a horizon.      *)
(***************************************************************************)
Ticker == "7203.T"

\* the frames of the direct calls: every shape under the ticker level;
\* bars without Close; the scenario shapes also without the ticker level
\* and under another ticker only
CallFrames ==
    {[multi |-> TRUE, rawLen |-> n, bars |-> (Ticker :> sh)] :
        sh \in StepShapes \cup ScenarioShapes, n \in RawLens}
    \cup {[multi |-> b, rawLen |-> n, bars |-> (Ticker :> sh)] :
             sh \in NoCloseShapes, n \in RawLens, b \in BOOLEAN}
    \cup {[multi |-> FALSE, rawLen |-> n, bars |-> (Ticker :> sh)] :
             sh \in ScenarioShapes, n \in RawLens}
    \cup {[multi |-> TRUE, rawLen |-> n, bars |-> ("6758.T" :> sh)] :
             sh \in ScenarioShapes, n \in RawLens}

InitCall ==
    /\ pc = "input"
    /\ tickers = <<Ticker>>
    /\ top = 1
    /\ chunk_size = 1
    /\ data \in CallFrames
    /\ rawLen = data.rawLen
    /\ cpos = 0
    /\ frames = << >>
    /\ stderr = << >>
    /\ idx = 0
    /\ metrics = << >>
    /\ short = << >>
    /\ mid = << >>
    /\ long = << >>
    /\ out = << >>
    /\ tf = ""
    /\ parts = << >>

CallCompute ==
    /\ pc = "input"
    /\ metrics' = AppendMetrics(metrics,
                                compute_metrics_for_ticker(data, Ticker, NameOf(Ticker)))
    /\ idx' = 1
    /\ pc' = "computed"
    /\ UNCHANGED <<tickers, top, chunk_size, rawLen, cpos, frames, stderr,
                   data, short, mid, long, out, tf, parts>>

CallScreens ==
    /\ pc = "computed"
    /\ metrics # << >>
    /\ short' = screen_short(metrics)
    /\ mid' = screen_mid(metrics)
    /\ long' = screen_long(metrics)
    /\ pc' = "screened"
    /\ UNCHANGED <<tickers, top, chunk_size, rawLen, cpos, frames, stderr,
                   data, idx, metrics, out, tf, parts>>

CallExplain ==
    /\ pc = "screened"
    /\ \E h \in Horizons :
         /\ tf' = h
         /\ parts' = explain(metrics[1], h)
    /\ pc' = "explained"
    /\ UNCHANGED <<tickers, top, chunk_size, rawLen, cpos, frames, stderr,
                   data, idx, metrics, short, mid, long, out>>

NextCall == CallCompute \/ CallScreens \/ CallExplain

SpecCall == InitCall /\ [][NextCall]_vars

(***************************************************************************)
(* Properties of the direct calls (SpecCall).                              *)
(***************************************************************************)
\* whether the frame of the call has bars for Ticker
InFrame == ~data.multi \/ Ticker \in FrameTickers(data)

CallSub == IF InFrame THEN SubFrame(data, Ticker) ELSE NoColumns

NonNullCount(col) == Cardinality({i \in DOMAIN col : col[i] # Null})

HasFields(sub) == {"Close", "High", "Volume"} \subseteq sub.columns

NumericFields ==
    {"ret_5", "ret_20", "ret_60", "ret_120", "ret_250", "prox_20h",
     "prox_52wh", "vol_ratio_10_20", "ma200_slope_20d"}

Lookbacks == {5, 20, 60, 120, 250}

RetOf(m, n) ==
    CASE n = 5 -> m.ret_5
      [] n = 20 -> m.ret_20
      [] n = 60 -> m.ret_60
      [] n = 120 -> m.ret_120
      [] OTHER -> m.ret_250

Defined(x) == x.k # "nan"

\* C5: a frame with fewer than 250 non-null closes, or without one of the
\* Close, High and Volume fields, gives None; so a vector is only ever
\* produced from at least 250 non-null closes.
C5_ShortHistoryIsNone ==
    pc = "computed" =>
        LET sub == CallSub
            complete == HasFields(sub)
            n == NonNullCount(sub.Close)
        IN /\ (~complete \/ n < 250) => metrics = << >>
           /\ metrics # << >> => complete /\ n >= 250

\* C5 witness: 249 non-null closes with all three fields, and no vector
C5_Witness ==
    /\ pc = "computed"
    /\ metrics = << >>
    /\ HasFields(CallSub)
    /\ NonNullCount(CallSub.Close) = 249

\* C4: in a computed vector ret_n is undefined exactly when the close
\* series has at most n observations or close[-(n+1)] is 0, and otherwise
\* it is close[-1] / close[-(n+1)] - 1.
C4_ReturnUndefinedIff ==
    pc = "computed" /\ metrics # << >> =>
        LET close == dropna(CallSub.Close)
            len == Len(close)
        IN \A n \in Lookbacks :
              LET r == RetOf(metrics[1], n)
              IN /\ isnan(r) <=> (len <= n \/ close[len - n] = 0)
                 /\ ~isnan(r) =>
                       /\ r.k = "fin"
                       /\ r.n = close[len] - close[len - n]
                       /\ r.d = close[len - n]

\* C4 witness: 251 closes with ret_5 and ret_250 defined and ret_60
\* undefined for a zero reference close
C4_Witness ==
    /\ pc = "computed"
    /\ metrics # << >>
    /\ Len(dropna(CallSub.Close)) = 251
    /\ Defined(metrics[1].ret_5)
    /\ Defined(metrics[1].ret_250)
    /\ isnan(metrics[1].ret_60)

\* C3: every numeric field of a computed vector is a finite number or
\* undefined, and the slope is undefined when the ma200 value 21 bars back
\* is zero.
C3_FieldsFiniteOrUndefined ==
    pc = "computed" /\ metrics # << >> =>
        LET close == dropna(CallSub.Close)
            len == Len(close)
        IN /\ \A f \in NumericFields : metrics[1][f].k \in {"fin", "nan"}
           /\ SumRange(close, len - 219, len - 20) = 0
                 => isnan(metrics[1].ma200_slope_20d)

\* C10: exactly 250 closes flat at 100, highs 100, volume 1000
IsFlat250(sub) ==
    /\ HasFields(sub)
    /\ NonNullCount(sub.Close) = 250
    /\ \A i \in DOMAIN sub.Close :
          /\ sub.Close[i] \in {Null, 100 * 1000}
          /\ sub.High[i] = sub.Close[i]
          /\ (sub.Close[i] # Null => sub.Volume[i] = 1000)

\* C10: the flat series of exactly 250 closes gives ret_5 = ret_20 =
\* ret_60 = ret_120 = 0, ret_250 undefined, all three above_ma flags false,
\* both proximities 1, volume ratio 1 and slope 0 (51 ma200 values), and
\* the ticker is in none of the three lists.
C10_Flat250 ==
    pc \in {"computed", "screened"} /\ InFrame /\ IsFlat250(CallSub) =>
        /\ Len(metrics) = 1
        /\ LET m == metrics[1]
           IN /\ \A n \in {5, 20, 60, 120} : EqZero(RetOf(m, n))
              /\ isnan(m.ret_250)
              /\ ~m.above_ma20 /\ ~m.above_ma50 /\ ~m.above_ma200
              /\ EqNum(m.prox_20h, Q(1, 1))
              /\ EqNum(m.prox_52wh, Q(1, 1))
              /\ EqNum(m.vol_ratio_10_20, Q(1, 1))
              /\ EqZero(m.ma200_slope_20d)
        /\ RollingCount(dropna(CallSub.Close), 200) = 51
        /\ pc = "screened" => short = << >> /\ mid = << >> /\ long = << >>

\* C10 witness: the flat series has been computed and screened
C10_Witness ==
    /\ pc = "screened"
    /\ InFrame
    /\ IsFlat250(CallSub)
    /\ metrics # << >>

\* x >= p / q for a defined x
AtLeast(x, p, q) == x.k = "pinf" \/ (x.k = "fin" /\ x.n * q >= p * x.d)

\* x > 0 for a defined x
Positive(x) == x.k = "pinf" \/ (x.k = "fin" /\ x.n > 0)

\* C2: the vector is returned by a horizon's screen exactly when it meets
\* all of that horizon's conditions (short: above_ma20, above_ma50,
\* prox_20h defined and >= 0.97, vol_ratio_10_20 defined and >= 0.9; mid:
\* above_ma50, above_ma200, slope defined and > 0, ret_60 defined and > 0;
\* long: above_ma200, slope defined and > 0, ret_250 defined and > 0), so
\* never with an undefined indicator in a comparison; and what is returned
\* is the vector itself.
C2_EligibleIffConditions ==
    pc = "screened" =>
        LET m == metrics[1]
        IN /\ short # << >> <=>
                 /\ m.above_ma20 /\ m.above_ma50
                 /\ Defined(m.prox_20h) /\ AtLeast(m.prox_20h, 97, 100)
                 /\ Defined(m.vol_ratio_10_20) /\ AtLeast(m.vol_ratio_10_20, 9, 10)
           /\ mid # << >> <=>
                 /\ m.above_ma50 /\ m.above_ma200
                 /\ Defined(m.ma200_slope_20d) /\ Positive(m.ma200_slope_20d)
                 /\ Defined(m.ret_60) /\ Positive(m.ret_60)
           /\ long # << >> <=>
                 /\ m.above_ma200
                 /\ Defined(m.ma200_slope_20d) /\ Positive(m.ma200_slope_20d)
                 /\ Defined(m.ret_250) /\ Positive(m.ret_250)
           /\ \A lst \in {short, mid, long} :
                 lst # << >> => Len(lst) = 1 /\ lst[1].m = m

\* C2 witness: a vector above both averages and at its 20-day high whose
\* volume ratio is undefined is left out of the short list while the mid
\* screen returns it
C2_Witness ==
    /\ pc = "screened"
    /\ metrics[1].above_ma20 /\ metrics[1].above_ma50
    /\ AtLeast(metrics[1].prox_20h, 97, 100)
    /\ ~Defined(metrics[1].vol_ratio_10_20)
    /\ short = << >>
    /\ mid # << >>

\* the indicator a fragment of the explanation refers to ("" for none)
RefOf(text) ==
    CASE text = "5d" -> "ret_5"
      [] text = "1m" -> "ret_20"
      [] text = "3m" -> "ret_60"
      [] text = "6m" -> "ret_120"
      [] text = "12m" -> "ret_250"
      [] text = "vol10/20" -> "vol_ratio_10_20"
      [] text \in {"20d-high-zone", "to-20d-high"} -> "prox_20h"
      [] text \in {"52w-high-new", "52w-high-zone", "to-52w-high"} -> "prox_52wh"
      [] text = "ma200-rising" -> "ma200_slope_20d"
      [] OTHER -> ""

PartTexts == {parts[i].text : i \in DOMAIN parts}

\* C8: no fragment of an explanation refers to an undefined indicator or
\* renders one; the 52-week-high fragment is the new-high one from 1.0,
\* the within-3% one from 0.97 and the distance one below; the 20-day-high
\* fragment is the zone one from 0.99 and the distance one below; and the
\* trend fragments appear only for their horizon (short: 20/50; mid:
\* 50/200 and slope; long: 200, slope and 12-month return).
C8_ExplainOnlyDefined ==
    pc = "explained" =>
        LET m == metrics[1]
        IN /\ \A i \in DOMAIN parts :
                 /\ RefOf(parts[i].text) # "" => Defined(m[RefOf(parts[i].text)])
                 /\ parts[i].arg.k \notin {"nan", "dash"}
           /\ \A f \in {"5d", "1m", "3m", "6m", "vol10/20"} :
                 f \in PartTexts <=> Defined(m[RefOf(f)])
           /\ PartTexts \cap {"52w-high-new", "52w-high-zone", "to-52w-high"} =
                 IF ~Defined(m.prox_52wh) THEN {}
                 ELSE IF AtLeast(m.prox_52wh, 1, 1) THEN {"52w-high-new"}
                 ELSE IF AtLeast(m.prox_52wh, 97, 100) THEN {"52w-high-zone"}
                 ELSE {"to-52w-high"}
           /\ PartTexts \cap {"20d-high-zone", "to-20d-high"} =
                 IF ~Defined(m.prox_20h) THEN {}
                 ELSE IF AtLeast(m.prox_20h, 99, 100) THEN {"20d-high-zone"}
                 ELSE {"to-20d-high"}
           /\ "above-20/50" \in PartTexts <=>
                 tf = "short" /\ m.above_ma20 /\ m.above_ma50
           /\ "above-50/200" \in PartTexts <=>
                 tf = "mid" /\ m.above_ma50 /\ m.above_ma200
           /\ "above-200" \in PartTexts <=> tf = "long" /\ m.above_ma200
           /\ "ma200-rising" \in PartTexts <=>
                 /\ tf \in {"mid", "long"}
                 /\ Defined(m.ma200_slope_20d) /\ Positive(m.ma200_slope_20d)
           /\ "12m" \in PartTexts <=> tf = "long" /\ Defined(m.ret_250)

\* C8 witness: a long-horizon explanation of a vector with ret_5 and the
\* volume ratio undefined that carries the 12-month fragment and no
\* fragment for either undefined indicator
C8_Witness ==
    /\ pc = "explained"
    /\ tf = "long"
    /\ ~Defined(metrics[1].ret_5)
    /\ ~Defined(metrics[1].vol_ratio_10_20)
    /\ "12m" \in PartTexts
    /\ "5d" \notin PartTexts
    /\ "vol10/20" \notin PartTexts

(***************************************************************************)
(* Properties of the run of main (Spec).                                   *)
(***************************************************************************)
\* the run has ended after the three lists were cut and printed
Screened == pc = "done" /\ metrics # << >>

ListOf(h) == CASE h = "short" -> short [] h = "mid" -> mid [] OTHER -> long

\* the place of a ticker in the universe list
Pos(t) == CHOOSE i \in DOMAIN tickers : tickers[i] = t

\* the vectors a horizon's conditions admit
Eligible(h) == {i \in DOMAIN metrics : FilterOf(h, metrics[i])}

ListedTickers(h) == {ListOf(h)[i].m.ticker : i \in DOMAIN ListOf(h)}

Min2(x, y) == IF x < y THEN x ELSE y

\* C1: each list is in descending order of score; entries of equal score
\* stand in the order of their tickers in the universe; for top >= 0 the
\* list has min(top, number of eligible tickers) entries; and the entries
\* are eligible vectors with their scores, none of them behind a vector
\* that was cut.
C1_SortedStableTruncated ==
    Screened =>
        \A h \in Horizons :
            LET lst == ListOf(h)
            IN /\ \A i, j \in DOMAIN lst :
                     i < j =>
                        /\ ~FLess(lst[i].score, lst[j].score)
                        /\ ~FLess(lst[j].score, lst[i].score)
                              => Pos(lst[i].m.ticker) < Pos(lst[j].m.ticker)
               /\ top >= 0 => Len(lst) = Min2(top, Cardinality(Eligible(h)))
               /\ top < 0 => lst = << >>
               /\ \A i \in DOMAIN lst :
                     /\ \E k \in Eligible(h) : metrics[k] = lst[i].m
                     /\ lst[i].score = ScoreOf(h, lst[i].m)
                     /\ \A k \in Eligible(h) :
                           metrics[k].ticker \notin ListedTickers(h)
                              => ~FLess(lst[i].score, ScoreOf(h, metrics[k]))

\* C1 witness: three eligible tickers of a universe that is not in
\* alphabetical order, cut to two entries of equal score
C1_Witness ==
    /\ pc = "done"
    /\ Len(tickers) = 3
    /\ tickers[1] = "9984.T"
    /\ top = 2
    /\ Cardinality(Eligible("short")) = 3
    /\ Len(short) = 2
    /\ ~FLess(short[2].score, short[1].score)
    /\ short[1].m.ticker = "9984.T"

\* the metrics list of the loop of main over the tickers ts
RECURSIVE RunMetrics(_, _)
RunMetrics(ts, df) ==
    IF ts = << >> THEN << >>
    ELSE LET m == compute_metrics_for_ticker(df, Head(ts), NameOf(Head(ts)))
         IN (IF IsNone(m) THEN << >> ELSE <<m>>) \o RunMetrics(Tail(ts), df)

\* the universe without its i-th ticker
Without(ts, i) == SubSeq(ts, 1, i - 1) \o SubSeq(ts, i + 1, Len(ts))

\* the tickers of the universe that give no vector: absent from the bar
\* table, or with fewer than 250 closes
NotComputable ==
    {i \in DOMAIN tickers :
        \/ tickers[i] \notin DOMAIN data.bars
        \/ NonNullCount(BarsOf(data.bars[tickers[i]], data.rawLen).Close) < 250}

CounterLines == {i \in DOMAIN out : out[i].line = "Computed metrics for"}

\* C6: at the end of a run with bars, a ticker that is absent from the bar
\* table or not computable has no vector and is in none of the three
\* lists; the vectors and the three lists are those of the run over the
\* universe without it; and the counter is the number of tickers that
\* gave a vector.
C6_FailureIsolation ==
    pc = "done" /\ data.bars # << >> =>
        /\ \A i \in NotComputable :
              LET others == RunMetrics(Without(tickers, i), data)
              IN /\ \A k \in DOMAIN metrics : metrics[k].ticker # tickers[i]
                 /\ \A h \in Horizons : tickers[i] \notin ListedTickers(h)
                 /\ metrics = others
                 /\ others # << >> =>
                       /\ short = Take(screen_short(others), TopN(top))
                       /\ mid = Take(screen_mid(others), TopN(top))
                       /\ long = Take(screen_long(others), TopN(top))
        /\ \A i \in CounterLines :
              /\ out[i].n = Len(metrics)
              /\ out[i].n = Cardinality(DOMAIN tickers \ NotComputable)
        /\ Cardinality(CounterLines) = 1

\* C6 witness: the second of three tickers is absent from the bar table,
\* the other two are counted and the first is listed
C6_Witness ==
    /\ pc = "done"
    /\ Len(tickers) = 3
    /\ DOMAIN data.bars = {tickers[1], tickers[3]}
    /\ Len(metrics) = 2
    /\ \E i \in CounterLines : out[i].n = 2
    /\ tickers[1] \in ListedTickers("short")

NoCandidateLines == {i \in DOMAIN out : out[i].line = "(no candidates)"}

\* C7 as stated: after an empty answer of the provider the run reports
\* zero computed tickers and three empty candidate lists.
C7_EmptyDataReportsZero ==
    pc = "done" /\ data.bars = << >> =>
        /\ \E i \in CounterLines : out[i].n = 0
        /\ Cardinality(NoCandidateLines) = 3

\* C7: when download_ohlcv returns the empty table the run prints the
\* universe line and "No price data downloaded; aborting." and returns: no
\* counter and no candidate list is printed, no vector is computed and the
\* three lists stay empty; and download_ohlcv raises only for a chunk size
\* that is not positive, in which case it returns no table at all.
C7_EmptyDataAborts ==
    /\ pc \in {"loaded", "done"} /\ data.bars = << >> =>
          /\ CounterLines = {}
          /\ \A i \in DOMAIN out : out[i].line \notin {"title", "row", "(no candidates)"}
          /\ metrics = << >> /\ idx = 0
          /\ short = << >> /\ mid = << >> /\ long = << >>
    /\ pc = "done" /\ data.bars = << >> =>
          out = <<[line |-> "Universe", n |-> Len(tickers)],
                  [line |-> "No price data downloaded; aborting."]>>
    /\ pc = "raised" => chunk_size <= 0 /\ frames = << >> /\ Len(out) = 1

\* C7 witness: a universe of three tickers, every chunk failed or came
\* back empty, and the run has ended
C7_Witness ==
    /\ pc = "done"
    /\ Len(tickers) = 3
    /\ data.bars = << >>
    /\ stderr # << >>
    /\ Len(out) = 2

\* the vectors of the tickers whose bars are the series of the given kind
OfKind(kind) ==
    {i \in DOMAIN metrics : data.bars[metrics[i].ticker].kind = kind}

\* the horizon's list holds the ticker, or is full
ListedUnlessCut(h, t) == t \in ListedTickers(h) \/ Len(ListOf(h)) = TopN(top)

\* what C9 says of the short and mid horizons and of the short score
GrowthShortMid(g) ==
    LET m == metrics[g]
    IN /\ m.above_ma20 /\ m.above_ma50
       /\ EqNum(m.prox_20h, Q(1, 1))
       /\ FilterOf("short", m) /\ ListedUnlessCut("short", m.ticker)
       /\ Positive(m.ma200_slope_20d) /\ Positive(m.ret_60)
       /\ FilterOf("mid", m) /\ ListedUnlessCut("mid", m.ticker)
       /\ \A f \in OfKind("flat") :
             /\ FLess(ShortScore(metrics[f]), ShortScore(m))
             /\ metrics[f].ticker \notin ListedTickers("short")

\* C9 as stated: the series of 250 closes growing 1% a day passes the
\* short, the mid and the long filter.
C9_Growth250PassesLong ==
    Screened /\ data.rawLen = 250 =>
        \A g \in OfKind("growth") :
            /\ GrowthShortMid(g)
            /\ FilterOf("long", metrics[g])
            /\ ListedUnlessCut("long", metrics[g].ticker)

\* C9: a ticker whose close grows 1% a day from 100 (high equal to close,
\* flat volume) passes the short filter (above_ma20, above_ma50, prox_20h
\* = 1) and the mid filter (positive slope and 60-day return), and its
\* short score is above that of a flat ticker of the batch, which is not
\* listed; it passes the long filter exactly when it has more than 250
\* closes: with 250 closes ret_250 is undefined and the long list does not
\* hold it.
C9_GrowthPasses ==
    Screened =>
        \A g \in OfKind("growth") :
            LET m == metrics[g]
            IN /\ GrowthShortMid(g)
               /\ FilterOf("long", m) <=> data.rawLen > 250
               /\ data.rawLen > 250 =>
                     Positive(m.ret_250) /\ ListedUnlessCut("long", m.ticker)
               /\ data.rawLen = 250 =>
                     /\ ~Defined(m.ret_250)
                     /\ m.ticker \notin ListedTickers("long")

\* C9 witness: a batch with the growth series of 250 closes and a flat
\* ticker; the growth ticker is in the short and the mid list and not in
\* the long list
C9_Witness ==
    /\ pc = "done"
    /\ data.rawLen = 250
    /\ OfKind("flat") # {}
    /\ \E g \in OfKind("growth") :
          /\ metrics[g].ticker \in ListedTickers("short")
          /\ metrics[g].ticker \in ListedTickers("mid")
          /\ metrics[g].ticker \notin ListedTickers("long")
====
